---- MODULE Spec2Model ----
(***************************************************************************)
(* Model of the 1C OData -> CSV exporter (src/main.py): the run            *)
(* orchestrator (main), the paginated fetch (fetch_all), the retrying      *)
(* request (http_get), the Atom parser (parse_properties), the entity      *)
(* extractors and the dataset writer (write_csv); and of the token-guarded  *)
(* proxy in front of the feed (src/proxy/proxy.py).                        *)
(*                                                                         *)
(* Spec is one run of the exporter with its failures; SpecEntries runs one *)
(* entity on a page with one entry of any shape; SpecTwice is two runs     *)
(* against the same remote; SpecProxy is the proxy handling one request.   *)
(*                                                                         *)
(* Cyrillic identifiers of the source are transliterated.                  *)
(***************************************************************************)
EXTENDS Integers, Sequences, FiniteSets, TLC

\* ------------------------------------------------------------------ bounds
\* PAGE_SIZE is 1000 in the source (src/main.py:41); the model scales it down.
PAGE_SIZE == 2
\* Largest remote collection the model enumerates.
MaxEntries == 3

\* ------------------------------------------------------- program constants
RETRIES == 3

\* main(): exports, in the order of the for loop.
Exports == <<"clients", "sales", "returns", "payments">>

EntityNames == {Exports[i] : i \in 1..Len(Exports)}

\* The marker file last_scrape.csv.
MARKER == "last_scrape"

FileNames == EntityNames \cup {MARKER}

LINES_PROP == "RasshifrovkaPlatezha"
HEADER_AMOUNT == "SummaDokumenta"
DERIVED_TOTAL == "SummaPlatezha_Itogo"

\* COLUMNS[key], and the single column of the marker file.
COLUMNS(key) ==
  CASE key = "clients" ->
         <<"Ref_Key", "Code", "Description", "NaimenovaniePolnoe",
           "IdentifikatsionnyyKodLichnosti", "KBE", "GolovnoyKontragent_Key",
           "OsnovnoyDogovorKontragenta_Key", "StranaRezidentstva_Key",
           "DeletionMark", "IsFolder", "Parent_Key">>
    [] key = "sales" ->
         <<"Ref_Key", "Number", "Date", "Posted", "Kontragent_Key",
           "DogovorKontragenta_Key", "SummaDokumenta", "ValyutaDokumenta_Key",
           "Organizatsiya_Key">>
    [] key = "returns" ->
         <<"Ref_Key", "Number", "Date", "Posted", "Kontragent_Key",
           "DogovorKontragenta_Key", "SummaDokumenta", "ValyutaDokumenta_Key",
           "Organizatsiya_Key", "DokumentOsnovanie", "DokumentOsnovanie_Type">>
    [] key = "payments" ->
         <<"Ref_Key", "Number", "Date", "Posted", "Kontragent_Key",
           "DogovorKontragenta_Key", "SummaDokumenta", "ValyutaDokumenta_Key",
           "Organizatsiya_Key", "VidOperatsii", "SummaPlatezha_Itogo">>
    [] OTHER -> <<"last_scrape">>

\* ------------------------------------------------------------ small helpers
Min(a, b) == IF a < b THEN a ELSE b

Range(s) == {s[i] : i \in 1..Len(s)}

\* dict.get(k, "")
Get(d, k) == IF k \in DOMAIN d THEN d[k] ELSE ""

\* The error values a run can raise: what was raised, and by which attempt of
\* http_get (0 when it was not raised by an attempt).
NoError == [what |-> "none", attempt |-> 0]
Error(what, attempt) == [what |-> what, attempt |-> attempt]

\* ------------------------------------------------------------- remote feed
\* Keys of the remote entries, in the remote's order.
Keys == <<"k1", "k2", "k3", "k4", "k5", "k6", "k7", "k8">>

Scalar(tag, text) == [tag |-> tag, coll |-> FALSE, text |-> text, elems |-> <<>>]
Collection(tag, elems) == [tag |-> tag, coll |-> TRUE, text |-> "", elems |-> elems]

\* The i-th entry of an entity's remote collection: an Atom entry whose
\* m:properties holds the children listed (a scalar has text, a Collection(...)
\* child has d:element children, each given as the texts of its amount nodes:
\* <<>> for an element without one).
RemoteEntry(key, i) ==
  [hasProps |-> TRUE,
   props |->
     <<Scalar("Ref_Key", Keys[i]), Scalar("Number", "n"), Scalar("Unlisted", "u")>>
     \o (IF key = "payments"
           THEN <<Scalar(HEADER_AMOUNT, IF i % 2 = 1 THEN "" ELSE "7.00"),
                  Collection(LINES_PROP, <<<<"10,50">>, <<"5.25">>, <<"abc">>>>)>>
           ELSE <<>>)]

RemoteCollection(key, n) == [i \in 1..n |-> RemoteEntry(key, i)]

\* What the remote answers to $top/$skip: the entries from offset skip on, as
\* many as the server hands out per request (limit).
RemotePage(coll, skip, limit) ==
  SubSeq(coll, skip + 1, Min(skip + limit, Len(coll)))

\* -------------------------------------------------------------- the parser
\* text.strip(), on the scalar texts the model uses.
Strip(text) ==
  CASE text = " 7.00 " -> "7.00"
    [] text = " " -> ""
    [] OTHER -> text

\* parse_properties: the loop over the children of m:properties.
RECURSIVE ParseChildren(_, _, _, _)
ParseChildren(props, i, flat, colls) ==
  IF i > Len(props) THEN [flat |-> flat, colls |-> colls]
  ELSE LET child == props[i] IN
       IF child.coll
         THEN ParseChildren(props, i + 1, flat, (child.tag :> child.elems) @@ colls)
         ELSE ParseChildren(props, i + 1, (child.tag :> Strip(child.text)) @@ flat,
                            colls)

parse_properties(entry) ==
  IF ~entry.hasProps THEN [flat |-> <<>>, colls |-> <<>>]
  ELSE ParseChildren(entry.props, 1, <<>>, <<>>)

\* ---------------------------------------------------------- the extractors
\* str(text).replace(",", "."), on the amount texts the model uses.
ReplaceComma(text) ==
  CASE text = "10,50" -> "10.50"
    [] OTHER -> text

\* A float: a finite amount in hundredths, or nan.
Num(c) == [kind |-> "num", c |-> c]
NaN == [kind |-> "nan", c |-> 0]
ValueError == [kind |-> "ValueError", c |-> 0]

\* float(text), on the amount texts the model uses: a decimal literal, the
\* literal nan (which float accepts), anything else raises ValueError.
Float(text) ==
  CASE text = "10.50" -> Num(1050)
    [] text = "5.25" -> Num(525)
    [] text = "7.00" -> Num(700)
    [] text = "nan" -> NaN
    [] OTHER -> ValueError

\* total += x
Add(total, x) ==
  IF total.kind = "nan" \/ x.kind = "nan" THEN NaN ELSE Num(total.c + x.c)

\* bool(total): a float is falsy only when it is zero.
Truthy(total) == total.kind = "nan" \/ total.c # 0

\* sum_payments_from_lines: the loop over the d:element children, from the
\* i-th on, with the total so far.
RECURSIVE SumLines(_, _, _)
SumLines(elems, i, total) ==
  IF i > Len(elems) THEN total
  ELSE LET amt_node == elems[i]
           v == Float(ReplaceComma(amt_node[1]))
       IN IF amt_node # <<>> /\ amt_node[1] # "" /\ v.kind # "ValueError"
            THEN SumLines(elems, i + 1, Add(total, v))
            ELSE SumLines(elems, i + 1, total)

sum_payments_from_lines(colls) ==
  IF LINES_PROP \in DOMAIN colls THEN SumLines(colls[LINES_PROP], 1, Num(0))
  ELSE Num(0)

\* f"{total:.2f}" of a non-negative amount, or of nan.
Format2(total) ==
  IF total.kind = "nan" THEN "nan"
  ELSE ToString(total.c \div 100) \o "." \o ToString((total.c % 100) \div 10)
       \o ToString(total.c % 10)

\* Mutant of extract_row: the row is the scalar map itself, completed with the
\* declared columns it lacks.
extract_rowKeepsAll(key, raw) ==
  [k \in DOMAIN raw.flat \cup Range(COLUMNS(key)) |-> Get(raw.flat, k)]

\* Mutant of extract_row: an empty header amount is overwritten with the
\* derived total whatever the total is.
extract_rowBackfillsZero(key, raw) ==
  LET cols == Range(COLUMNS(key)) IN
  IF key = "payments"
    THEN LET total == sum_payments_from_lines(raw.colls) IN
         [k \in cols |->
            IF k = DERIVED_TOTAL THEN Format2(total)
            ELSE IF k = HEADER_AMOUNT /\ Get(raw.flat, HEADER_AMOUNT) = ""
              THEN Format2(total)
            ELSE Get(raw.flat, k)]
    ELSE [k \in cols |-> Get(raw.flat, k)]

\* The row (a dict) of one raw entry.
extract_row(key, raw) ==
  LET cols == Range(COLUMNS(key)) IN
  IF key = "payments"
    THEN LET total == sum_payments_from_lines(raw.colls) IN
         [k \in cols |->
            IF k = DERIVED_TOTAL THEN Format2(total)
            ELSE IF k = HEADER_AMOUNT /\ Truthy(total) /\ Get(raw.flat, HEADER_AMOUNT) = ""
              THEN Format2(total)
            ELSE Get(raw.flat, k)]
    ELSE [k \in cols |-> Get(raw.flat, k)]

\* extract_clients / extract_sales / extract_returns / extract_payments.
extract(key, results) == [i \in 1..Len(results) |-> extract_row(key, results[i])]

\* ------------------------------------------------------------- the writer
\* The lines write_csv writes: the header, then one line per row, each row's
\* values in the order of columns (missing keys as "").
CsvLine(row, columns) == [j \in 1..Len(columns) |-> Get(row, columns[j])]

CsvLines(rows, columns) ==
  <<columns>> \o [i \in 1..Len(rows) |-> CsvLine(rows[i], columns)]

\* ------------------------------------------------------------------ state
VARIABLES
  config,      \* which of ODATA_URL, ODATA_USER, ODATA_PASS are set
  remote,      \* the remote feed: number of entries of each entity's collection
  limit,       \* the remote feed: entries it hands out per request
  files,       \* the output directory: each file's existence and lines
  pc,          \* position of the run
  idx,         \* main: index into exports (Len(Exports)+1 once the loop is over)
  any_ok,      \* main: any_ok
  attempted,   \* history: the entities whose try block was entered, in order
  skip,        \* fetch_all: skip
  results,     \* fetch_all: results
  pages,       \* history: the $skip of every http_get call of this fetch_all
  clean,       \* history: no request attempt of this fetch_all has failed
  outcomes,    \* history: the answers to the attempts of this http_get call
  last_exc,    \* http_get: last_exc
  sleeps,      \* history: time.sleep calls of this http_get call
  resp,        \* http_get's returned response
  wlines,      \* write_csv: the lines to write (header, then rows)
  raised,      \* the exception that ended the last try block (NoError if none)
  marker_writes, \* history: write_csv calls on the marker file
  exit_status, \* "running", then "ok" (exit 0) or "fail" (nonzero exit)
  run,         \* history: which run of the pipeline this is, and the output
               \* directory as the run before it left it
  proxy        \* the proxy process (src/proxy/proxy.py): its environment, the
               \* request it is handling, its reply and its upstream requests

vars == <<config, remote, limit, files, pc, idx, any_ok, attempted, skip, results,
          pages, clean, outcomes, last_exc, sleeps, resp, wlines, raised,
          marker_writes, exit_status, run, proxy>>

fetchVars == <<skip, results, pages, clean>>
httpVars == <<outcomes, last_exc, sleeps, resp>>
\* What no step of a run changes: its environment, the run history and the
\* proxy (a separate process main.py does not talk to).
envVars == <<config, remote, limit, run, proxy>>

\* The entity the loop of main is at.
Key == Exports[idx]

InLoop == idx <= Len(Exports)

\* The file write_csv is writing: the entity's, or the marker after the loop.
WPath == IF InLoop THEN Key ELSE MARKER

NoFile == [exists |-> FALSE, lines |-> <<>>]

\* The output directory before the run: datasets of an earlier run for clients
\* and sales (a header and one row), nothing yet for the others.
PriorFile(f) ==
  IF f \in {"clients", "sales"}
    THEN [exists |-> TRUE,
          lines |-> <<COLUMNS(f), [j \in 1..Len(COLUMNS(f)) |-> "old"]>>]
    ELSE NoFile

\* The answers one requests.get can get: a transport-level exception, or a
\* response with a status and a body that is well-formed XML or not.
Statuses == {200, 404, 500}

Answers ==
  {[kind |-> "exc", status |-> 0, xml |-> FALSE]}
  \cup {[kind |-> "resp", status |-> s, xml |-> FALSE] : s \in Statuses}
  \cup {[kind |-> "resp", status |-> 200, xml |-> TRUE]}

\* The page sizes the remote may hand out per request: $top, less (a server-side
\* page limit), or more (a server ignoring $top).
Limits == {PAGE_SIZE - 1, PAGE_SIZE, PAGE_SIZE + 1}

\* The remotes the model enumerates: the four collections have the same number
\* of entries, 0..MaxEntries (the extractions of the entities share no state).
Remotes == {[e \in EntityNames |-> n] : n \in 0..MaxEntries}

\* almaty_now_str(): the wall clock at the time of the marker write.
Timestamps == {"06.11.2026 15:00", "06.11.2026 15:01"}

\* The proxy process before it has received a request.
ProxyIdle == [stage |-> "idle"]

\* The first run of the pipeline.
FirstRun == [n |-> 1, first |-> [f \in FileNames |-> PriorFile(f)]]

\* The locals of main, fetch_all, http_get and write_csv before a run.
MainInit ==
  /\ pc = "start"
  /\ idx = 1
  /\ any_ok = FALSE
  /\ attempted = <<>>
  /\ skip = 0
  /\ results = <<>>
  /\ pages = <<>>
  /\ clean = TRUE
  /\ outcomes = <<>>
  /\ last_exc = NoError
  /\ sleeps = 0
  /\ resp = <<>>
  /\ wlines = <<>>
  /\ raised = NoError
  /\ marker_writes = 0
  /\ exit_status = "running"

Init ==
  /\ config \in [url : BOOLEAN, user : BOOLEAN, pass : BOOLEAN]
  /\ remote \in Remotes
  /\ limit \in Limits
  /\ files = [f \in FileNames |-> PriorFile(f)]
  /\ MainInit
  /\ run = FirstRun
  /\ proxy = ProxyIdle

\* ----------------------------------------------------------------- main
\* Mutant of Misconfigured: only the base URL is required.
MisconfiguredUrlOnly == ~config.url

\* fail_if_misconfigured
Misconfigured == ~config.url \/ ~config.user \/ ~config.pass

\* main: fail_if_misconfigured(); ensure_outdir()
Start ==
  /\ pc = "start"
  /\ IF Misconfigured
       THEN pc' = "done" /\ exit_status' = "fail"
       ELSE pc' = "loop" /\ exit_status' = exit_status
  /\ UNCHANGED <<envVars, files, idx, any_ok, attempted, fetchVars, httpVars,
                 wlines, raised, marker_writes>>

\* Mutant of Raise: the exception is not caught and ends the run.
RaiseAbortsRun(err) ==
  /\ raised' = err
  /\ pc' = "done" /\ idx' = idx /\ exit_status' = "fail"
  /\ UNCHANGED <<any_ok, attempted, marker_writes>>

\* An exception raised at the current position: inside the try block of the
\* loop it is caught by `except Exception`, reported, and the loop goes on
\* with the next entity; outside (the marker write) nothing catches it and
\* the process dies with a nonzero exit status.
Raise(err) ==
  /\ raised' = err
  /\ IF InLoop
       THEN pc' = "loop" /\ idx' = idx + 1 /\ exit_status' = exit_status
       ELSE pc' = "done" /\ idx' = idx /\ exit_status' = "fail"
  /\ UNCHANGED <<any_ok, attempted, marker_writes>>

\* The locals of fetch_all, http_get and write_csv once the function is left.
DropFetch ==
  /\ skip' = 0
  /\ results' = <<>>
  /\ pages' = <<>>
  /\ clean' = TRUE

DropHttp ==
  /\ outcomes' = <<>>
  /\ last_exc' = NoError
  /\ sleeps' = 0
  /\ resp' = <<>>

\* http_get is entered for the page at offset s.
CallHttp(s) ==
  /\ pc' = "http"
  /\ pages' = Append(pages, s)
  /\ outcomes' = <<>>
  /\ last_exc' = NoError
  /\ sleeps' = 0
  /\ resp' = <<>>

\* main: the next iteration of the for loop enters its try block: func() calls
\* fetch_all, which calls http_get for the first page.
BeginEntity ==
  /\ pc = "loop"
  /\ InLoop
  /\ attempted' = Append(attempted, Key)
  /\ skip' = 0
  /\ results' = <<>>
  /\ clean' = TRUE
  /\ pages' = <<0>>
  /\ outcomes' = <<>>
  /\ last_exc' = NoError
  /\ sleeps' = 0
  /\ resp' = <<>>
  /\ raised' = NoError
  /\ pc' = "http"
  /\ UNCHANGED <<envVars, files, idx, any_ok, wlines, marker_writes, exit_status>>

\* ------------------------------------------------------------- http_get
\* resp.status_code >= 500
IsServerError(status) == status >= 500

\* resp.raise_for_status() raises
IsHttpError(status) == status >= 400 /\ status < 600

\* Mutant of LoopRuns: range(1, RETRIES + 2).
LoopRunsOnceMore == Len(outcomes) <= RETRIES

\* for attempt in range(1, RETRIES + 1): another iteration is left.
LoopRuns == Len(outcomes) < RETRIES

\* One iteration of the retry loop, with the answer a.
Request(a) ==
  /\ pc = "http"
  /\ LoopRuns
  /\ outcomes' = Append(outcomes, a)
  /\ LET attempt == Len(outcomes) + 1 IN
     IF a.kind = "exc"
       THEN \* requests.get raised: except Exception
            /\ last_exc' = Error("ConnectionError", attempt)
            /\ sleeps' = sleeps + 1
            /\ clean' = FALSE
            /\ UNCHANGED <<pc, resp>>
     ELSE IF IsServerError(a.status)
       THEN \* sleep; continue
            /\ sleeps' = sleeps + 1
            /\ clean' = FALSE
            /\ UNCHANGED <<pc, resp, last_exc>>
     ELSE IF IsHttpError(a.status)
       THEN \* raise_for_status raises inside the try: except Exception
            /\ last_exc' = Error("HTTPError", attempt)
            /\ sleeps' = sleeps + 1
            /\ clean' = FALSE
            /\ UNCHANGED <<pc, resp>>
       ELSE \* return resp
            /\ resp' = [xml |-> a.xml,
                        entries |-> RemotePage(RemoteCollection(Key, remote[Key]),
                                               skip, limit)]
            /\ pc' = "parse"
            /\ UNCHANGED <<last_exc, sleeps, clean>>
  /\ UNCHANGED <<envVars, files, idx, any_ok, attempted, skip, results, pages,
                 wlines, raised, marker_writes, exit_status>>

\* What http_get raises after the loop.
Bubble(exc) == IF exc # NoError THEN exc ELSE Error("RuntimeError", 0)

\* Mutant of HttpRaise: fetch_all swallows the error and returns the entries
\* of the pages fetched so far.
HttpRaiseKeepsPartial ==
  /\ pc = "http"
  /\ ~LoopRuns
  /\ pc' = "open"
  /\ wlines' = CsvLines(extract(Key, results), COLUMNS(Key))
  /\ raised' = Bubble(last_exc)
  /\ UNCHANGED <<envVars, files, idx, any_ok, attempted, fetchVars, httpVars,
                 marker_writes, exit_status>>

\* The retry loop is over without a return: http_get raises, fetch_all and the
\* extractor let it through.
HttpRaise ==
  /\ pc = "http"
  /\ ~LoopRuns
  /\ Raise(Bubble(last_exc))
  /\ UNCHANGED <<envVars, files, fetchVars, httpVars, wlines>>

\* ------------------------------------------------------------ fetch_all
\* Mutant of IsLastPage: len(entries) <= PAGE_SIZE.
IsLastPageOrFull(entries) == Len(entries) = 0 \/ Len(entries) <= PAGE_SIZE

\* `if not entries: break`, `if len(entries) < PAGE_SIZE: break`
IsLastPage(entries) == Len(entries) = 0 \/ Len(entries) < PAGE_SIZE

\* Mutant of NextSkip: the offset does not advance.
NextSkipStuck(s) == s

\* Mutant of NextSkip: the offset advances by one entry too few.
NextSkipOverlaps(s) == s + PAGE_SIZE - 1

\* skip += PAGE_SIZE
NextSkip(s) == s + PAGE_SIZE

\* Mutant of ParsePage: a body that is not well-formed XML counts as a page
\* without entries.
ParsePageMasksBadXml ==
  /\ pc = "parse"
  /\ LET entries == IF resp.xml THEN resp.entries ELSE <<>>
         parsed == [i \in 1..Len(entries) |-> parse_properties(entries[i])]
         all == results \o parsed
     IN /\ results' = all
        /\ IF IsLastPage(entries)
             THEN /\ pc' = "open"
                  /\ wlines' = CsvLines(extract(Key, all), COLUMNS(Key))
                  /\ UNCHANGED <<skip, pages, httpVars>>
             ELSE /\ skip' = NextSkip(skip)
                  /\ CallHttp(NextSkip(skip))
                  /\ UNCHANGED wlines
        /\ UNCHANGED <<clean, idx, any_ok, attempted, raised, marker_writes,
                       exit_status>>
  /\ UNCHANGED <<envVars, files>>

\* The page http_get returned is parsed and appended; the loop ends or goes on
\* with the next offset. When it ends, the extractor builds the rows and
\* write_csv is entered.
ParsePage ==
  /\ pc = "parse"
  /\ IF ~resp.xml
       THEN \* etree.fromstring raises
            /\ Raise(Error("XMLSyntaxError", 0))
            /\ UNCHANGED <<fetchVars, httpVars, wlines>>
       ELSE LET entries == resp.entries
                parsed == [i \in 1..Len(entries) |-> parse_properties(entries[i])]
                all == results \o parsed
            IN /\ results' = all
               /\ IF IsLastPage(entries)
                    THEN /\ pc' = "open"
                         /\ wlines' = CsvLines(extract(Key, all), COLUMNS(Key))
                         /\ UNCHANGED <<skip, pages, httpVars>>
                    ELSE /\ skip' = NextSkip(skip)
                         /\ CallHttp(NextSkip(skip))
                         /\ UNCHANGED wlines
               /\ UNCHANGED <<clean, idx, any_ok, attempted, raised, marker_writes,
                              exit_status>>
  /\ UNCHANGED <<envVars, files>>

\* ------------------------------------------------------------ write_csv
\* Mutant of WriteOpen: open(path, "a"), the lines go after those the file has.
WriteOpenAppends ==
  /\ pc = "open"
  /\ \/ /\ files' = [files EXCEPT ![WPath].exists = TRUE]
        /\ wlines' = files[WPath].lines \o wlines
        /\ pc' = "write"
        /\ UNCHANGED <<idx, any_ok, attempted, raised, marker_writes, exit_status>>
     \/ /\ Raise(Error("OSError", 0))
        /\ wlines' = <<>>
        /\ UNCHANGED files
  /\ DropFetch
  /\ DropHttp
  /\ UNCHANGED envVars

\* open(path, "w"): the file is created or truncated; or open raises and the
\* file is as it was.
WriteOpen ==
  /\ pc = "open"
  /\ \/ /\ files' = [files EXCEPT ![WPath] = [exists |-> TRUE, lines |-> <<>>]]
        /\ pc' = "write"
        /\ UNCHANGED <<idx, any_ok, attempted, raised, marker_writes, exit_status,
                       wlines>>
     \/ /\ Raise(Error("OSError", 0))
        /\ wlines' = <<>>
        /\ UNCHANGED files
  /\ DropFetch
  /\ DropHttp
  /\ UNCHANGED envVars

\* writeheader / writerow: the next line reaches the file.
WriteLine ==
  /\ pc = "write"
  /\ Len(files[WPath].lines) < Len(wlines)
  /\ files' = [files EXCEPT ![WPath].lines = Append(@, wlines[Len(@) + 1])]
  /\ UNCHANGED <<envVars, pc, idx, any_ok, attempted, fetchVars, httpVars, wlines,
                 raised, marker_writes, exit_status>>

\* A write or the final flush raises: the file keeps what had reached it.
WriteFail ==
  /\ pc = "write"
  /\ Raise(Error("OSError", 0))
  /\ wlines' = <<>>
  /\ UNCHANGED <<envVars, files, fetchVars, httpVars>>

\* write_csv returns. In the loop: any_ok = True and the next entity; after
\* the loop (the marker): the run ends with exit status 0.
WriteDone ==
  /\ pc = "write"
  /\ Len(files[WPath].lines) = Len(wlines)
  /\ IF InLoop
       THEN /\ any_ok' = TRUE
            /\ idx' = idx + 1
            /\ pc' = "loop"
            /\ exit_status' = exit_status
       ELSE /\ pc' = "done"
            /\ exit_status' = "ok"
            /\ UNCHANGED <<any_ok, idx>>
  /\ wlines' = <<>>
  /\ UNCHANGED <<envVars, files, attempted, fetchVars, httpVars, raised,
                 marker_writes>>

\* -------------------------------------------------------- after the loop
\* The marker write is entered, with the timestamp ts.
CallMarkerWrite(ts) ==
  /\ wlines' = CsvLines(<<[last_scrape |-> ts]>>, COLUMNS(MARKER))
  /\ marker_writes' = marker_writes + 1
  /\ pc' = "open"
  /\ exit_status' = exit_status

\* Mutant of Finish: the loop is left for the marker write at the first success.
FinishAtFirstSuccess ==
  /\ pc = "loop"
  /\ any_ok \/ ~InLoop
  /\ IF any_ok
       THEN \E ts \in Timestamps : CallMarkerWrite(ts)
       ELSE /\ pc' = "done"
            /\ exit_status' = "fail"
            /\ UNCHANGED <<wlines, marker_writes>>
  /\ idx' = Len(Exports) + 1
  /\ DropFetch
  /\ DropHttp
  /\ UNCHANGED <<envVars, files, any_ok, attempted, raised>>

\* Mutant of Finish: the marker is written whether or not anything succeeded.
FinishAlwaysWritesMarker ==
  /\ pc = "loop"
  /\ ~InLoop
  /\ \E ts \in Timestamps : CallMarkerWrite(ts)
  /\ DropFetch
  /\ DropHttp
  /\ UNCHANGED <<envVars, files, idx, any_ok, attempted, raised>>

\* if any_ok: write_csv(last_scrape.csv, [{"last_scrape": ts}], ...);
\* else: raise SystemExit(...)
Finish ==
  /\ pc = "loop"
  /\ ~InLoop
  /\ IF any_ok
       THEN \E ts \in Timestamps : CallMarkerWrite(ts)
       ELSE /\ pc' = "done"
            /\ exit_status' = "fail"
            /\ UNCHANGED <<wlines, marker_writes>>
  /\ DropFetch
  /\ DropHttp
  /\ UNCHANGED <<envVars, files, idx, any_ok, attempted, raised>>

Next ==
  \/ Start
  \/ BeginEntity
  \/ \E a \in Answers : Request(a)
  \/ HttpRaise
  \/ ParsePage
  \/ WriteOpen
  \/ WriteLine
  \/ WriteFail
  \/ WriteDone
  \/ Finish

Spec == Init /\ [][Next]_vars

TypeOK ==
  /\ pc \in {"start", "loop", "http", "parse", "open", "write", "done"}
  /\ idx \in 1..(Len(Exports) + 1)
  /\ exit_status \in {"running", "ok", "fail"}
  /\ Len(outcomes) <= RETRIES

\* ================================================================ claims
Done == pc = "done"

\* The run got past fail_if_misconfigured.
PassedConfig == pc # "start" /\ ~Misconfigured

Prefix(s, t) == Len(s) <= Len(t) /\ \A i \in 1..Len(s) : s[i] = t[i]

AllFailed == PassedConfig /\ ~InLoop /\ ~any_ok

\* C1: in a run that passes the configuration check every entity is attempted
\* exactly once, in the order clients, sales, returns, payments, whatever
\* happened to the entities before it: the attempts so far are always a prefix
\* of that order, the next entity can always be attempted when the previous
\* attempt is over, and the finished run has attempted all four.
C1_EveryEntityAttemptedInOrder ==
  /\ Prefix(attempted, Exports)
  /\ (PassedConfig /\ pc = "loop") => Len(attempted) = idx - 1
  /\ (PassedConfig /\ pc = "loop" /\ InLoop) => ENABLED BeginEntity
  /\ (PassedConfig /\ Done) => attempted = Exports

\* C1 witness: payments is being fetched after sales failed (its file is the
\* prior one) and returns was written.
C1_Witness ==
  /\ pc = "http" /\ Key = "payments"
  /\ files["clients"] # PriorFile("clients")
  /\ files["sales"] = PriorFile("sales")
  /\ files["returns"].exists
  /\ any_ok

C3_FailureExitIffNothingSucceeded ==
  /\ (Done /\ AllFailed) =>
       (exit_status = "fail" /\ marker_writes = 0 /\ files[MARKER] = PriorFile(MARKER))
  /\ (Done /\ PassedConfig /\ exit_status = "fail") => ~any_ok

\* The marker write itself raised (nothing catches it).
MarkerWriteRaised == ~InLoop /\ marker_writes = 1 /\ raised = Error("OSError", 0)

\* C3 (amended): all four fail => no marker and a failure exit; a run past the
\* configuration check fails only when zero entities succeeded or the write of
\* the marker file raised.
C3_FailureExitOnlyIfNothingSucceededOrMarkerFailed ==
  /\ (Done /\ AllFailed) =>
       (exit_status = "fail" /\ marker_writes = 0 /\ files[MARKER] = PriorFile(MARKER))
  /\ (AllFailed /\ pc = "loop") => ENABLED Finish
  /\ (Done /\ PassedConfig /\ exit_status = "fail") => (~any_ok \/ MarkerWriteRaised)
  /\ (Done /\ PassedConfig /\ ~any_ok) => exit_status = "fail"

\* C3 witness: a finished run in which all four entities were attempted and
\* failed.
C3_Witness ==
  /\ Done /\ attempted = Exports /\ ~any_ok /\ exit_status = "fail"
  /\ marker_writes = 0

\* ---------------------------------------------------------------- http_get
IsOk(a) == a.kind = "resp" /\ ~IsServerError(a.status) /\ ~IsHttpError(a.status)

Is4xx(a) == a.kind = "resp" /\ a.status >= 400 /\ a.status < 500

Is5xx(a) == a.kind = "resp" /\ a.status >= 500 /\ a.status < 600

IsTransportFailure(a) == a.kind = "exc"

HttpErrors == {"ConnectionError", "HTTPError", "RuntimeError"}

\* http_get raised and the exception ended the entity's try block.
HttpFailed == pc = "loop" /\ raised.what \in HttpErrors

\* C4 (as claimed): a 4xx answer is the last request of its page: http_get
\* leaves its loop at once, without a backoff sleep, raising that error.
C4_ClientErrorNotRetried ==
  \A i \in 1..Len(outcomes) :
    Is4xx(outcomes[i]) =>
      /\ i = Len(outcomes)
      /\ pc # "http"
      /\ sleeps = Cardinality({j \in 1..(i - 1) : ~IsOk(outcomes[j])})
      /\ raised = Error("HTTPError", i)

\* C5: one http_get call issues at most RETRIES requests; while it is in its
\* loop every attempt so far failed and was followed by a sleep, and another
\* request follows as long as fewer than RETRIES were made; a successful answer
\* is the last one of the call and is what http_get returns; http_get raises
\* only after RETRIES failed attempts.
C5_AtMostThreeAttemptsStopAtSuccess ==
  /\ Len(outcomes) <= RETRIES
  /\ \A i \in 1..Len(outcomes) :
       IsOk(outcomes[i]) =>
         /\ i = Len(outcomes)
         /\ pc # "http"
         /\ resp = [xml |-> outcomes[i].xml,
                    entries |-> RemotePage(RemoteCollection(Exports[Len(attempted)],
                                                            remote[Exports[Len(attempted)]]),
                                           skip, limit)]
         /\ \A j \in 1..(i - 1) : ~IsOk(outcomes[j])
  /\ pc = "http" =>
       /\ \A i \in 1..Len(outcomes) : ~IsOk(outcomes[i])
       /\ sleeps = Len(outcomes)
       /\ Len(outcomes) < RETRIES => ENABLED (\E a \in Answers : Request(a))
       /\ Len(outcomes) < RETRIES => ~ENABLED HttpRaise
       /\ Len(outcomes) = RETRIES => ENABLED HttpRaise
       /\ Len(outcomes) = RETRIES => ~ENABLED (\E a \in Answers : Request(a))
  /\ HttpFailed =>
       /\ Len(outcomes) = RETRIES
       /\ \A i \in 1..RETRIES : ~IsOk(outcomes[i])

\* C5 witness: the third attempt succeeds after a transport failure and a 5xx.
C5_Witness ==
  /\ pc = "parse"
  /\ Len(outcomes) = RETRIES
  /\ IsTransportFailure(outcomes[1])
  /\ Is5xx(outcomes[2])
  /\ IsOk(outcomes[RETRIES])
  /\ sleeps = 2

\* The error observed by attempt i with answer a.
ObservedError(a, i) ==
  IF IsTransportFailure(a) THEN Error("ConnectionError", i) ELSE Error("HTTPError", i)

\* C6 (as claimed): after RETRIES attempts that each ended in a 5xx or a
\* transport failure, the error http_get raises is the one observed by the last
\* attempt.
C6_LastObservedErrorPropagated ==
  (/\ HttpFailed
   /\ Len(outcomes) = RETRIES
   /\ \A i \in 1..RETRIES : Is5xx(outcomes[i]) \/ IsTransportFailure(outcomes[i]))
  => raised = ObservedError(outcomes[RETRIES], RETRIES)

\* --------------------------------------------------------------- fetch_all
\* fetch_all has returned to the extractor and write_csv is about to open the
\* entity's file.
FetchReturned == pc = "open" /\ InLoop

\* The remote hands out exactly what $top and $skip ask for.
HonoursTop == limit = PAGE_SIZE

\* C7: the pages of one fetch_all are requested at $skip 0, PAGE_SIZE,
\* 2*PAGE_SIZE, ... in this order, each only after pages that were all full
\* (so none after the first short page); with no failed request and a remote
\* that serves $top/$skip, a collection of n entries takes exactly
\* floor(n / PAGE_SIZE) + 1 requests, the last page holding the n % PAGE_SIZE
\* remaining entries (none when n is a multiple of PAGE_SIZE).
C7_PageRequests ==
  /\ \A i \in 1..Len(pages) : pages[i] = (i - 1) * PAGE_SIZE
  /\ pc \in {"http", "parse"} =>
       /\ skip = pages[Len(pages)]
       /\ Len(results) >= (Len(pages) - 1) * PAGE_SIZE
  /\ FetchReturned => IsLastPage(resp.entries)
  /\ (HonoursTop /\ clean /\ InLoop) =>
       LET n == remote[Key] IN
       /\ pc \in {"http", "parse"} =>
            /\ Len(pages) <= (n \div PAGE_SIZE) + 1
            /\ Len(results) = (Len(pages) - 1) * PAGE_SIZE
            /\ Len(outcomes) <= 1
       /\ FetchReturned =>
            /\ Len(pages) = (n \div PAGE_SIZE) + 1
            /\ Len(outcomes) = 1
            /\ Len(resp.entries) = n % PAGE_SIZE
            /\ Len(results) = n

\* C7 witness: a collection of exactly PAGE_SIZE entries took two requests, the
\* second at $skip = PAGE_SIZE returning no entry.
C7_Witness ==
  /\ FetchReturned /\ HonoursTop /\ clean
  /\ remote[Key] = PAGE_SIZE
  /\ pages = <<0, PAGE_SIZE>>
  /\ resp.entries = <<>>

\* The lines of an entity's file that hold one row per remote entry, in the
\* remote's order.
RemoteLines(key) ==
  CsvLines(extract(key, [i \in 1..remote[key] |->
                           parse_properties(RemoteEntry(key, i))]),
           COLUMNS(key))

\* The entity before the one the loop is at was written.
PreviousWritten == pc = "loop" /\ idx > 1 /\ raised = NoError

OneRowPerEntry(lines, key) ==
  /\ lines = RemoteLines(key)
  /\ Len(lines) = remote[key] + 1
  /\ \A i \in 1..remote[key] : lines[i + 1][1] = Keys[i]

\* C8 (as claimed): when the remote returns at most PAGE_SIZE entries per page,
\* a successful extraction gives one row per remote entry, each once, in the
\* remote's order, in the rows handed to write_csv and in the file written.
C8_RowsMatchRemoteAtMostPageSize ==
  /\ (FetchReturned /\ limit <= PAGE_SIZE) => OneRowPerEntry(wlines, Key)
  /\ (PreviousWritten /\ limit <= PAGE_SIZE) =>
       OneRowPerEntry(files[Exports[idx - 1]].lines, Exports[idx - 1])

\* C8 (amended): when the remote returns for every request the PAGE_SIZE
\* entries at the requested offset (fewer only when the collection ends), a
\* successful extraction gives one row per remote entry, each once, in the
\* remote's order, in the rows handed to write_csv and in the file written.
C8_RowsMatchRemote ==
  /\ (FetchReturned /\ HonoursTop) => OneRowPerEntry(wlines, Key)
  /\ (PreviousWritten /\ HonoursTop) =>
       OneRowPerEntry(files[Exports[idx - 1]].lines, Exports[idx - 1])

\* C8 witness: a payments collection of more than one page was written.
C8_Witness ==
  /\ PreviousWritten /\ HonoursTop
  /\ Exports[idx - 1] = "payments"
  /\ remote["payments"] > PAGE_SIZE
  /\ Len(files["payments"].lines) = remote["payments"] + 1

\* C9: when http_get gives up on a page, the entity fails as a whole: its file
\* is the one from before the run although earlier pages were fetched, the
\* failed page is the last one requested, the entity is not attempted again,
\* and a file changes only while write_csv is writing that very file.
C9_FailedPageFailsEntity ==
  /\ [](HttpFailed =>
          /\ files[Exports[idx - 1]] = PriorFile(Exports[idx - 1])
          /\ Len(outcomes) = RETRIES
          /\ pages[Len(pages)] = skip
          /\ Len(attempted) = idx - 1
          /\ Prefix(attempted, Exports))
  /\ [][/\ HttpFailed' /\ ~HttpFailed => (files' = files /\ pages' = pages)
        /\ \A f \in FileNames :
             files'[f] # files[f] => (pc \in {"open", "write"} /\ f = WPath)]_vars

\* C9 witness: the second page of sales failed after the first was fetched, and
\* sales.csv is the prior file.
C9_Witness ==
  /\ HttpFailed
  /\ Exports[idx - 1] = "sales"
  /\ Len(pages) = 2
  /\ Len(results) = PAGE_SIZE
  /\ files["sales"] = PriorFile("sales")
  /\ files["sales"].exists

\* ---------------------------------------------------------------- write_csv
\* C10 (as claimed): at every point of the run each entity's file is the
\* complete prior version or a complete new version (never empty, never
\* cut short of the rows write_csv was given).
C10_FileAlwaysComplete ==
  \A e \in EntityNames :
    \/ files[e] = PriorFile(e)
    \/ /\ files[e].exists
       /\ Len(files[e].lines) >= 1
       /\ files[e].lines[1] = COLUMNS(e)
       /\ (pc = "write" /\ InLoop /\ e = Key) => files[e].lines = wlines

\* ============================================== one page, one entry, any shape
\* The feed entries the pipeline is run on one at a time: what a remote may put
\* into the m:properties of an entry.
MaxLines == 3

AmountTexts == {"10,50", "5.25", "abc", "", "nan"}

\* A d:element of the payment lines: without an amount node, or with one.
LineElems == {<<>>} \cup {<<t>> : t \in AmountTexts}

SeqsUpTo(S, n) == UNION {[1..k -> S] : k \in 0..n}

LineSets == SeqsUpTo(LineElems, MaxLines)

\* The header amount property: absent, or present with a text.
HeaderChoices == {<<>>, <<"">>, <<" ">>, <<"7.00">>, <<" 7.00 ">>, <<"abc">>}

\* Children that repeat a local name already used: a scalar named as the lines
\* collection, or a second header amount.
Dups == {"none", "lines as scalar", "second header"}

DupChildren(dup) ==
  CASE dup = "lines as scalar" -> <<Scalar(LINES_PROP, "x")>>
    [] dup = "second header" -> <<Scalar(HEADER_AMOUNT, "8.00")>>
    [] OTHER -> <<>>

\* An entry with a key, a property no column list declares, and the chosen
\* header amount, scalar named as the derived total, lines collection and
\* repeated names.
FeedEntry(header, derived, lines, dup) ==
  [hasProps |-> TRUE,
   props |->
     <<Scalar("Ref_Key", "k1"), Scalar("Unlisted", "u")>>
     \o [i \in 1..Len(header) |-> Scalar(HEADER_AMOUNT, header[i])]
     \o (IF derived THEN <<Scalar(DERIVED_TOTAL, "9.99")>> ELSE <<>>)
     \o [i \in 1..Len(lines) |-> Collection(LINES_PROP, lines[i])]
     \o DupChildren(dup)]

\* An entry without the content/properties sub-tree.
BareEntry == [hasProps |-> FALSE, props |-> <<>>]

\* The lines collections tried on an entity: every one on payments (the only
\* extractor that reads it), absent or one sample on the others.
LinesChoices(key) ==
  IF key = "payments" THEN {<<>>} \cup {<<l>> : l \in LineSets}
  ELSE {<<>>, <<(<< <<"10,50">> >>)>>}

FeedEntries(key) ==
  {BareEntry}
  \cup {FeedEntry(h, d, l, dup) : h \in HeaderChoices, d \in BOOLEAN,
                                 l \in LinesChoices(key), dup \in Dups}

\* http_get has just returned the first page of the entity the loop is at (the
\* entities before it failed on their request); the page holds one entry.
InitEntries ==
  /\ config = [url |-> TRUE, user |-> TRUE, pass |-> TRUE]
  /\ remote = [e \in EntityNames |-> 1]
  /\ limit = PAGE_SIZE
  /\ files = [f \in FileNames |-> PriorFile(f)]
  /\ pc = "parse"
  /\ idx \in 1..Len(Exports)
  /\ any_ok = FALSE
  /\ attempted = SubSeq(Exports, 1, idx)
  /\ skip = 0
  /\ results = <<>>
  /\ pages = <<0>>
  /\ clean = TRUE
  /\ outcomes = <<[kind |-> "resp", status |-> 200, xml |-> TRUE]>>
  /\ last_exc = NoError
  /\ sleeps = 0
  /\ \E e \in FeedEntries(Key) : resp = [xml |-> TRUE, entries |-> <<e>>]
  /\ wlines = <<>>
  /\ raised = NoError
  /\ marker_writes = 0
  /\ exit_status = "running"
  /\ run = FirstRun
  /\ proxy = ProxyIdle

\* The entity's fetch_all, extractor and write_csv, up to the next iteration of
\* the loop of main.
NextEntries ==
  \/ ParsePage
  \/ WriteOpen
  \/ WriteLine
  \/ WriteFail
  \/ WriteDone

SpecEntries == InitEntries /\ [][NextEntries]_vars

\* The entry of the page, while the response is held.
Entry == resp.entries[1]

Max(S) == CHOOSE x \in S : \A y \in S : y <= x

\* The scalar children of an entry with a local name, by position.
ScalarsNamed(entry, tag) ==
  {i \in 1..Len(entry.props) : ~entry.props[i].coll /\ entry.props[i].tag = tag}

\* The scalar value an entry has for a name: the trimmed text of the last such
\* child, "" when it has none.
ScalarValue(entry, tag) ==
  IF ScalarsNamed(entry, tag) = {} THEN ""
  ELSE Strip(entry.props[Max(ScalarsNamed(entry, tag))].text)

\* The texts of the feed properties no column list declares.
UndeclaredTexts == {"u", "x"}

\* The entity whose attempt has just ended, at the top of the loop.
Previous == Exports[idx - 1]

PaymentsColumn(name) ==
  CHOOSE j \in 1..Len(COLUMNS("payments")) : COLUMNS("payments")[j] = name

\* C12: for every payments entry, the header amount of the row is the derived
\* total, formatted, when the entry's header amount (its trimmed scalar value)
\* is empty or absent and the derived total is not zero; in every other case it
\* is the entry's own header amount, whatever the lines sum to: any non-empty
\* string, or "" when the header is empty and the total is zero.
C12_HeaderAmountBackfill ==
  (pc = "open" /\ Key = "payments") =>
    LET header == ScalarValue(Entry, HEADER_AMOUNT)
        total == sum_payments_from_lines(results[1].colls)
        shown == wlines[2][PaymentsColumn(HEADER_AMOUNT)]
    IN IF header = "" /\ total # Num(0)
         THEN shown = Format2(total)
         ELSE shown = header /\ (header = "" => shown # Format2(total))

\* C12 witness: a payments entry with an empty header amount and lines that
\* sum to 15.75 has been extracted: the header amount of the row is 15.75.
C12_Witness ==
  /\ pc = "open" /\ Key = "payments"
  /\ Scalar(HEADER_AMOUNT, "") \in Range(Entry.props)
  /\ ScalarValue(Entry, HEADER_AMOUNT) = ""
  /\ wlines[2][PaymentsColumn(HEADER_AMOUNT)] = "15.75"

\* The d:element children of the lines collection of an entry (of the last
\* collection child with that name), <<>> when it has none.
LinesOf(entry) ==
  LET named == {i \in 1..Len(entry.props) :
                  entry.props[i].coll /\ entry.props[i].tag = LINES_PROP}
  IN IF named = {} THEN <<>> ELSE entry.props[Max(named)].elems

\* The amount of a line in hundredths as the claim reads it: the decimal
\* number its text denotes, with a comma or a point; 0 for a line without an
\* amount node or with a text that is no decimal number.
DecimalAmount(el) ==
  IF el = <<>> THEN 0
  ELSE CASE el[1] = "10,50" -> 1050
         [] el[1] = "5.25" -> 525
         [] OTHER -> 0

RECURSIVE SumOfDecimalAmounts(_, _)
SumOfDecimalAmounts(elems, i) ==
  IF i > Len(elems) THEN 0
  ELSE DecimalAmount(elems[i]) + SumOfDecimalAmounts(elems, i + 1)

\* An amount in hundredths written with exactly two fractional digits.
TwoDigits(c) ==
  ToString(c \div 100) \o "." \o ToString((c \div 10) % 10) \o ToString(c % 10)

HasNaNLine(entry) == <<"nan">> \in Range(LinesOf(entry))

\* C13: for every payments entry, the derived total of the row is the sum of
\* the line amounts that are decimal numbers (after replacing "," by "."),
\* written with exactly two fractional digits; a line whose amount is missing,
\* empty or no decimal number contributes 0, and an entry without the lines
\* collection has 0.00.
C13_TotalIsSumOfDecimalAmounts ==
  (pc = "open" /\ Key = "payments") =>
    wlines[2][PaymentsColumn(DERIVED_TOTAL)]
      = TwoDigits(SumOfDecimalAmounts(LinesOf(Entry), 1))

\* C13, on the entries none of whose line amounts is the literal nan: the
\* derived total is that sum.
C13_TotalIsSumUnlessNaN ==
  (pc = "open" /\ Key = "payments" /\ ~HasNaNLine(Entry)) =>
    wlines[2][PaymentsColumn(DERIVED_TOTAL)]
      = TwoDigits(SumOfDecimalAmounts(LinesOf(Entry), 1))

\* The lines "10,50", "5.25", "abc" have been summed to 15.75.
C13_Example ==
  /\ pc = "open" /\ Key = "payments"
  /\ LinesOf(Entry) = << <<"10,50">>, <<"5.25">>, <<"abc">> >>
  /\ wlines[2][PaymentsColumn(DERIVED_TOTAL)] = "15.75"

\* ======================================================= the run, continued
\* One of ODATA_URL, ODATA_USER, ODATA_PASS is not set.
AnyConfigAbsent == \E k \in {"url", "user", "pass"} : ~config[k]

\* C14: when a required configuration value is absent the run does nothing
\* but end with a failure exit status: no entity is attempted, no request is
\* issued, no output file is created or changed, the marker is not written.
C14_MisconfiguredFailsFirst ==
  AnyConfigAbsent =>
    /\ pc \in {"start", "done"}
    /\ pc = "start" => ENABLED Start
    /\ Done => exit_status = "fail"
    /\ attempted = <<>> /\ pages = <<>> /\ outcomes = <<>>
    /\ files = [f \in FileNames |-> PriorFile(f)]
    /\ marker_writes = 0

\* C14 witness: a run with the URL and the user but no password has ended with
\* a failure exit status.
C14_Witness ==
  /\ config = [url |-> TRUE, user |-> TRUE, pass |-> FALSE]
  /\ Done /\ exit_status = "fail"

\* ================================================================ the proxy
\* A value that may be None: os.getenv(name), request.headers.get(name),
\* request.args.get(name).
None == [set |-> FALSE, val |-> ""]
Str(v) == [set |-> TRUE, val |-> v]

\* `not v`
Falsy(v) == ~v.set \/ v.val = ""

\* The environments of the proxy process: each of ONEC_USER, ONEC_PASS and
\* PROXY_TOKEN set or not (PROXY_TOKEN possibly to the empty string);
\* ONEC_BASE_URL has a default.
ProxyEnvs ==
  [ONEC_USER : {None, Str("u")}, ONEC_PASS : {None, Str("p")},
   PROXY_TOKEN : {None, Str(""), Str("t")}]

\* The GET requests it may receive: the route, the X-Proxy-Token header and
\* the path query parameter, each absent or present.
ProxyRequests ==
  [route : {"/", "/odata"}, token : {None, Str(""), Str("t"), Str("x")},
   path : {None, Str(""), Str("Catalog_Kontragenty")}]

\* What requests.get to the remote ends with: an exception (status 0) or a
\* response with a status.
UpstreamAnswers == {0, 200, 404, 500}

\* The proxy has received a request; main.py is not running.
InitProxy ==
  /\ config = [url |-> TRUE, user |-> TRUE, pass |-> TRUE]
  /\ remote = [e \in EntityNames |-> 0]
  /\ limit = PAGE_SIZE
  /\ files = [f \in FileNames |-> PriorFile(f)]
  /\ MainInit
  /\ run = FirstRun
  /\ \E e \in ProxyEnvs, r \in ProxyRequests :
       proxy = [stage |-> "received", env |-> e, req |-> r, status |-> 0,
                upstream |-> 0]

mainVars == <<config, remote, limit, files, pc, idx, any_ok, attempted, skip,
              results, pages, clean, outcomes, last_exc, sleeps, resp, wlines,
              raised, marker_writes, exit_status, run>>

\* check_env: some variable is missing.
check_env(env) ==
  Falsy(env.ONEC_USER) \/ Falsy(env.ONEC_PASS) \/ Falsy(env.PROXY_TOKEN)

Reply(status) == proxy' = [proxy EXCEPT !.stage = "replied", !.status = status]

\* GET /
health ==
  /\ proxy.stage = "received"
  /\ proxy.req.route = "/"
  /\ IF check_env(proxy.env) THEN Reply(500) ELSE Reply(200)
  /\ UNCHANGED mainVars

\* GET /odata, up to the reply or to the requests.get to the remote.
odata_proxy ==
  /\ proxy.stage = "received"
  /\ proxy.req.route = "/odata"
  /\ LET token == proxy.req.token
         raw_path == proxy.req.path
     IN IF token # proxy.env.PROXY_TOKEN THEN Reply(403)
        ELSE IF Falsy(raw_path) THEN Reply(400)
        ELSE proxy' = [proxy EXCEPT !.stage = "forwarding",
                                    !.upstream = @ + 1]
  /\ UNCHANGED mainVars

\* requests.get returns (status and body are passed through) or raises (500).
Forwarded(a) ==
  /\ proxy.stage = "forwarding"
  /\ IF a = 0 THEN Reply(500) ELSE Reply(a)
  /\ UNCHANGED mainVars

NextProxy ==
  \/ health
  \/ odata_proxy
  \/ \E a \in UpstreamAnswers : Forwarded(a)

SpecProxy == InitProxy /\ [][NextProxy]_vars

\* The request carries a token header, and it is the configured token.
GoodToken ==
  /\ proxy.req.token.set
  /\ proxy.env.PROXY_TOKEN.set
  /\ proxy.req.token.val = proxy.env.PROXY_TOKEN.val

\* C15: in every environment of the proxy, a GET /odata request is forwarded to
\* the remote only when it carries a token header equal to the configured
\* token and a non-empty path; a request without the header or with another
\* token is answered 403 and one with the token but without a path 400, neither
\* with an upstream request.
C15_ForwardsOnlyWithToken ==
  (proxy.stage # "idle" /\ proxy.req.route = "/odata") =>
    /\ proxy.upstream > 0 => (GoodToken /\ ~Falsy(proxy.req.path))
    /\ (proxy.stage = "replied" /\ ~GoodToken) =>
         (proxy.status = 403 /\ proxy.upstream = 0)
    /\ (proxy.stage = "replied" /\ GoodToken /\ Falsy(proxy.req.path)) =>
         (proxy.status = 400 /\ proxy.upstream = 0)

\* C15 where PROXY_TOKEN is set: the claim holds.
C15_ForwardsOnlyWithTokenWhenConfigured ==
  proxy.stage # "idle" => (proxy.env.PROXY_TOKEN.set => C15_ForwardsOnlyWithToken)

\* ============================================================ two runs
\* The answers of a remote that is reached or answers 404, with well-formed
\* pages.
TwiceAnswers ==
  {[kind |-> "resp", status |-> 404, xml |-> FALSE],
   [kind |-> "resp", status |-> 200, xml |-> TRUE]}

\* The pipeline is run again, after a run has ended, on the output directory
\* that run left, against the same remote.
Restart ==
  /\ pc = "done"
  /\ run.n = 1
  /\ run' = [n |-> 2, first |-> files]
  /\ pc' = "start"
  /\ idx' = 1
  /\ any_ok' = FALSE
  /\ attempted' = <<>>
  /\ raised' = NoError
  /\ marker_writes' = 0
  /\ exit_status' = "running"
  /\ DropFetch
  /\ DropHttp
  /\ wlines' = <<>>
  /\ UNCHANGED <<config, remote, limit, files, proxy>>

\* Two runs whose requests may fail and whose writes, once the file is open,
\* do not.
NextTwice ==
  \/ Start
  \/ BeginEntity
  \/ \E a \in TwiceAnswers : Request(a)
  \/ HttpRaise
  \/ ParsePage
  \/ WriteOpen
  \/ WriteLine
  \/ WriteDone
  \/ Finish
  \/ Restart

SpecTwice == Init /\ [][NextTwice]_vars

SecondRun == run.n = 2

\* The first run wrote the entity's file: it is not the file of before the run.
WrittenInFirst(e) == run.first[e] # PriorFile(e)

XmlFailed == pc = "loop" /\ idx > 1 /\ raised.what = "XMLSyntaxError"

\* C17: a page whose body is not well-formed XML fails the entity at once: the
\* parse error leaves fetch_all and ends the attempt, the page is not requested
\* again and no further page is requested, nothing of the entity is written
\* (its file is the one from before the run, whatever pages were fetched
\* before), and the run goes on with the next entity without counting a
\* success.
C17_BadXmlFailsEntity ==
  /\ [](XmlFailed =>
          /\ files[Previous] = PriorFile(Previous)
          /\ ~resp.xml
          /\ outcomes[Len(outcomes)] = [kind |-> "resp", status |-> 200, xml |-> FALSE]
          /\ pages[Len(pages)] = skip
          /\ Len(attempted) = idx - 1)
  /\ [][(pc = "parse" /\ ~resp.xml) =>
          /\ XmlFailed'
          /\ idx' = idx + 1
          /\ files' = files
          /\ pages' = pages /\ outcomes' = outcomes /\ results' = results
          /\ any_ok' = any_ok]_vars

\* C17 witness: the second page of sales was not well-formed after the first
\* was fetched and parsed; sales.csv is the prior file.
C17_Witness ==
  /\ XmlFailed
  /\ Previous = "sales"
  /\ Len(pages) = 2
  /\ Len(results) = PAGE_SIZE
  /\ files["sales"] = PriorFile("sales")
  /\ files["sales"].exists

\* --------------------------------------------------------- parse_properties
\* A line of a dataset without a key: the row of an entry without properties
\* (every other entry of the pages tried has the key k1).
Keyless(line) == line[1] = ""

\* C18: when the entry of the fetched page lacks the content/properties
\* sub-tree, the extraction of the entity fails: write_csv is never entered
\* with a row for it, and no file gets such a row.
C18_EntryWithoutPropertiesFailsEntity ==
  /\ pc = "open" => Entry.hasProps
  /\ \A i \in 2..Len(wlines) : ~Keyless(wlines[i])
  /\ \A e \in EntityNames :
       \A i \in 2..Len(files[e].lines) : ~Keyless(files[e].lines[i])

\* What the code does with such an entry: the export of the entity succeeds
\* and its file has a row of empty strings.
C18_BlankRowWritten ==
  /\ pc = "loop" /\ raised = NoError /\ Previous = "clients"
  /\ files["clients"].lines
       = <<COLUMNS("clients"), [j \in 1..Len(COLUMNS("clients")) |-> ""]>>

\* C19: for every entry, also one whose properties element has several
\* children with the same local name, no name is a key of both maps
\* parse_properties returns.
C19_ScalarAndCollectionKeysDisjoint ==
  pc = "open" =>
    DOMAIN results[1].flat \cap DOMAIN results[1].colls = {}

\* C19 on the entries whose scalar children and collection children have no
\* local name in common (a name may repeat among the scalars): the key sets
\* are disjoint.
C19_DisjointUnlessNameRepeatsAcrossKinds ==
  (pc = "open"
     /\ \A i, j \in 1..Len(Entry.props) :
          (Entry.props[i].coll /\ ~Entry.props[j].coll)
            => Entry.props[i].tag # Entry.props[j].tag)
    => DOMAIN results[1].flat \cap DOMAIN results[1].colls = {}

\* ------------------------------------------------------------- termination
\* The pages fetch_all may still request for the entity it is at, the current
\* one included: one per PAGE_SIZE entries the remote has beyond the offset.
PagesLeft == (remote[Key] - skip) \div PAGE_SIZE + 1

\* A measure of the work a run has left: the entities not yet attempted weigh
\* most, then the phase of the current attempt, then the pages, the attempts
\* of the current page and the lines not yet written.
Variant ==
  LET base == (Len(Exports) + 1 - idx) * 1000
      page == PagesLeft * (2 * RETRIES + 2)
  IN CASE pc = "done" -> 0
       [] pc = "start" -> (Len(Exports) + 2) * 1000
       [] pc = "loop" -> base + 901
       [] pc = "http" -> base + 500 + page - 2 * Len(outcomes)
       [] pc = "parse" -> base + 500 + page - 2 * RETRIES - 1
       [] pc = "open" -> base + 100 + Len(wlines) + 2
       [] pc = "write" -> base + 1 + Len(wlines) - Len(files[WPath].lines)

\* A run that has not ended is at a position whose step can be taken: the
\* guards of the steps, position by position.
CanStep ==
  CASE pc = "write" -> Len(files[WPath].lines) <= Len(wlines)
    [] pc = "http" -> InLoop /\ Len(outcomes) <= RETRIES
    [] pc = "parse" -> InLoop
    [] OTHER -> pc \in {"start", "loop", "open"}

\* C20: every run terminates when each request completes or fails and the
\* remote's collections are finite (so that some page is short): the measure of
\* the work left is never negative and every step lowers it, and a run that
\* has not ended can always take a step. The retry loop of a page makes at
\* most RETRIES attempts and then ends the attempt on the entity. fetch_all
\* returns exactly on a page with fewer than PAGE_SIZE entries; after any
\* other page it requests the next offset, however many pages it has
\* requested: the size of the pages is all that ends the loop.
C20_RunTerminates ==
  /\ [](/\ Variant >= 0
        /\ Done \/ CanStep
        /\ Len(outcomes) <= RETRIES)
  /\ [][/\ Variant' < Variant
        /\ (pc = "http" /\ Len(outcomes) = RETRIES) => pc' = "loop"
        /\ (pc = "parse" /\ resp.xml) =>
             IF Len(resp.entries) < PAGE_SIZE
               THEN pc' = "open" /\ pages' = pages
               ELSE /\ pc' = "http"
                    /\ pages' = Append(pages, skip + PAGE_SIZE)
                    /\ skip' = skip + PAGE_SIZE]_vars

\* C20 witness: a run has ended after payments was fetched in as many pages as
\* a collection of MaxEntries entries takes, the last one short.
C20_Witness ==
  /\ Done /\ exit_status = "ok"
  /\ remote["payments"] = MaxEntries
  /\ limit = PAGE_SIZE
  /\ Len(files["payments"].lines) = MaxEntries + 1
  /\ attempted = Exports
====
